---- MODULE Spec2Model ----
(***************************************************************************)
(* Name resolution and lowering of jaq filters (jaq-core/src/unparse.rs).  *)
(*                                                                         *)
(* Two entry points are modelled:                                          *)
(*   - the definition compiler, Ctx::def / Ctx::close / Ctx::filter, which *)
(*     turns nested definitions into a table of filters (defs) and inlines *)
(*     calls to already closed definitions ("cousins");                    *)
(*   - the expression compiler, the public def and filter, which resolve   *)
(*     calls against argument names and a registry of built-in filters.    *)
(*                                                                         *)
(* Source expressions (jaq_parse::filter::Filter, "Expr") and IR filters   *)
(* (crate::filter::Filter) are records with one fixed set of fields, so    *)
(* that any two of them can be compared.                                   *)
(***************************************************************************)
EXTENDS Integers, Sequences, FiniteSets, TLC

(***************************************************************************)
(* Bounds of the model.                                                    *)
(***************************************************************************)
\* number of definitions one module may hold (top-level plus nested)
MaxDefs == 2
\* number of formal parameters of a definition given to the public def
MaxArgs == 2

(***************************************************************************)
(* Source expressions: t is the variant, s a name (variable, call, binder, *)
(* operator, string), n a list of one-character strings or flags (the text *)
(* of a numeric literal, the kind of a fold, the flags of a path part),    *)
(* as the sub-expressions.                                                 *)
(***************************************************************************)
Ex(t, s, n, as) == [t |-> t, s |-> s, n |-> n, as |-> as]

EId == Ex("Id", "", <<>>, <<>>)
ENum(n) == Ex("Num", "", n, <<>>)
EStr(s) == Ex("Str", s, <<>>, <<>>)
EVar(v) == Ex("Var", v, <<>>, <<>>)
ECall(name, args) == Ex("Call", name, <<>>, args)
EPipe(l, r) == Ex("Pipe", "", <<>>, <<l, r>>)
EBind(l, x, r) == Ex("Bind", x, <<>>, <<l, r>>)
EFold(typ, xs, x, init, f) == Ex("Fold", x, <<typ>>, <<xs, init, f>>)
EBin(t, op, l, r) == Ex(t, op, <<>>, <<l, r>>)
EMath(l, op, r) == EBin("Math", op, l, r)
EComma(l, r) == EBin("Comma", "", l, r)
EUn(t, f) == Ex(t, "", <<>>, <<f>>)
ERecurse == Ex("Recurse", "", <<>>, <<>>)
\* if_thens is the list if1, then1, if2, then2, ...
EIte(if_thens, else_) == Ex("Ite", "", <<>>, if_thens \o <<else_>>)
EArray(a) == Ex("Array", "", <<>>, a)
EObject(kvs) == Ex("Object", "", <<>>, kvs)
KvFilter(k, v) == Ex("KvFilter", "", <<>>, <<k, v>>)
\* v is <<>> (None) or <<value>> (Some)
KvStr(k, v) == Ex("KvStr", k, <<>>, v)
\* parts are PIndex / PRange nodes
EPath(f, parts) == Ex("Path", "", <<>>, <<f>> \o parts)
PIndex(i, opt) == Ex("Index", "", <<opt>>, <<i>>)
\* lower and upper are <<>> (None) or <<e>> (Some)
PRange(lower, upper, opt) ==
    Ex("Range", "", <<opt, IF lower = <<>> THEN "-" ELSE "l", IF upper = <<>> THEN "-" ELSE "u">>,
       lower \o upper)

(***************************************************************************)
(* IR filters: t the variant, i and j numbers (Var/Arg index, Int value,   *)
(* Call skip and id, SkipCtx count, binds and is_or flags, Float mantissa  *)
(* and decimal exponent), s a string or operator, fs the sub-filters.      *)
(***************************************************************************)
Fl(t, i, j, s, fs) == [t |-> t, i |-> i, j |-> j, s |-> s, fs |-> fs]

FId == Fl("Id", 0, 0, "", <<>>)
FInt(i) == Fl("Int", i, 0, "", <<>>)
FFloat(m, e) == Fl("Float", m, e, "", <<>>)
FStr(s) == Fl("Str", 0, 0, s, <<>>)
FVar(v) == Fl("Var", v, 0, "", <<>>)
FArg(a) == Fl("Arg", a, 0, "", <<>>)
FCall(skip, id) == Fl("Call", skip, id, "", <<>>)
FSkipCtx(n, f) == Fl("SkipCtx", n, 0, "", <<f>>)
FPipe(l, binds, r) == Fl("Pipe", IF binds THEN 1 ELSE 0, 0, "", <<l, r>>)
FFold(typ, xs, init, f) == Fl("Fold", 0, 0, typ, <<xs, init, f>>)
FMath(l, op, r) == Fl("Math", 0, 0, op, <<l, r>>)
FIte(i, t, e) == Fl("Ite", 0, 0, "", <<i, t, e>>)
FPathIndex(k) == Fl("Path", 0, 0, "", <<FId, Fl("Index", 0, 0, "", <<k>>)>>)
\* what an out-of-range args.get(a).unwrap() / args[a] leaves: the translation aborts
FPanic == Fl("Panic", 0, 0, "", <<>>)

\* Filter::default(), the placeholder pushed when a slot is reserved
FilterDefault == FId
\* Filter::recurse(), the distinguished constant for `..`
FilterRecurse == Fl("Recurse", 0, 0, "", <<>>)

RECURSIVE HasTag(_, _)
HasTag(f, t) == f.t = t \/ \E k \in DOMAIN f.fs : HasTag(f.fs[k], t)

(***************************************************************************)
(* Numeric literals (Expr::Num): the text is a list of characters.         *)
(***************************************************************************)
Digits == {"0", "1", "2", "3", "4", "5", "6", "7", "8", "9"}

DigitVal(c) ==
    CASE c = "0" -> 0 [] c = "1" -> 1 [] c = "2" -> 2 [] c = "3" -> 3 [] c = "4" -> 4
      [] c = "5" -> 5 [] c = "6" -> 6 [] c = "7" -> 7 [] c = "8" -> 8 [] OTHER -> 9

\* n.contains(['.', 'e', 'E'])
ContainsFloatChar(n) == \E k \in DOMAIN n : n[k] \in {".", "e", "E"}

RECURSIVE StripZeros(_)
StripZeros(ds) ==
    IF Len(ds) > 1 /\ ds[1] = "0" THEN StripZeros(Tail(ds)) ELSE ds

\* the decimal digits of isize::MAX = 2^63 - 1 on the 64-bit target
IsizeMaxDigits ==
    <<"9","2","2","3","3","7","2","0","3","6","8","5","4","7","7","5","8","0","7">>

RECURSIVE DigitsLeq(_, _)
\* ds <= es for two digit lists of the same length
DigitsLeq(ds, es) ==
    IF ds = <<>> THEN TRUE
    ELSE IF DigitVal(ds[1]) # DigitVal(es[1]) THEN DigitVal(ds[1]) < DigitVal(es[1])
    ELSE DigitsLeq(Tail(ds), Tail(es))

FitsIsize(ds) ==
    LET s == StripZeros(ds) IN
    \/ Len(s) < Len(IsizeMaxDigits)
    \/ Len(s) = Len(IsizeMaxDigits) /\ DigitsLeq(s, IsizeMaxDigits)

RECURSIVE DigitsValue(_)
\* the value of a digit list (the literals of the model have at most nine digits)
DigitsValue(ds) ==
    IF ds = <<>> THEN 0
    ELSE 10 * DigitsValue(SubSeq(ds, 1, Len(ds) - 1)) + DigitVal(ds[Len(ds)])

\* n.parse::<isize>(): an unsigned literal is accepted when it is a non-empty
\* list of digits whose value fits the machine word
ParseIsize(n) ==
    IF n # <<>> /\ (\A k \in DOMAIN n : n[k] \in Digits) /\ FitsIsize(n)
    THEN [ok |-> TRUE, v |-> DigitsValue(StripZeros(n))]
    ELSE [ok |-> FALSE, v |-> 0]

RECURSIVE TakeDigits(_, _)
\* the first index from i on that holds no digit
TakeDigits(n, i) ==
    IF i <= Len(n) /\ n[i] \in Digits THEN TakeDigits(n, i + 1) ELSE i

RECURSIVE Normal(_, _)
\* one representation per value m * 10^e
Normal(m, e) ==
    IF m = 0 THEN <<0, 0>>
    ELSE IF m % 10 = 0 THEN Normal(m \div 10, e + 1)
    ELSE <<m, e>>

\* n.parse::<f64>(): digits [. digits] [(e|E) [+|-] digits], with at least one
\* digit in the mantissa and in a given exponent; the value is m * 10^e
ParseF64(n) ==
    LET i1 == TakeDigits(n, 1)
        hasDot == i1 <= Len(n) /\ n[i1] = "."
        i2 == IF hasDot THEN TakeDigits(n, i1 + 1) ELSE i1
        intDs == SubSeq(n, 1, i1 - 1)
        fracDs == IF hasDot THEN SubSeq(n, i1 + 1, i2 - 1) ELSE <<>>
        hasExp == i2 <= Len(n) /\ n[i2] \in {"e", "E"}
        hasSign == hasExp /\ i2 + 1 <= Len(n) /\ n[i2 + 1] \in {"+", "-"}
        i3 == IF hasExp THEN (IF hasSign THEN i2 + 2 ELSE i2 + 1) ELSE i2
        i4 == IF hasExp THEN TakeDigits(n, i3) ELSE i2
        expDs == SubSeq(n, i3, i4 - 1)
        ok == /\ i4 = Len(n) + 1
              /\ Len(intDs) + Len(fracDs) >= 1
              /\ hasExp => Len(expDs) >= 1
        ex == IF hasSign /\ n[i2 + 1] = "-" THEN 0 - DigitsValue(expDs) ELSE DigitsValue(expDs)
    IN IF ok
       THEN [ok |-> TRUE, v |-> Normal(DigitsValue(intDs \o fracDs), ex - Len(fracDs))]
       ELSE [ok |-> FALSE, v |-> <<0, 0>>]

(***************************************************************************)
(* The result of translating one expression: the filter, the diagnostics   *)
(* pushed to errs while translating it (in order), and whether the         *)
(* translation hit a panic.                                                *)
(***************************************************************************)
Res(f, errs, panic) == [f |-> f, errs |-> errs, panic |-> panic]
Ok(f) == Res(f, <<>>, FALSE)

\* Expr::Num, the same code in Ctx::filter and in filter
NumFilter(n) ==
    IF ContainsFloatChar(n)
    THEN LET p == ParseF64(n) IN
         IF p.ok THEN Ok(FFloat(p.v[1], p.v[2]))
         ELSE Res(FFloat(0, 0), <<"cannot interpret as floating-point number">>, FALSE)
    ELSE LET p == ParseIsize(n) IN
         IF p.ok THEN Ok(FInt(p.v))
         ELSE Res(FInt(0), <<"cannot interpret as machine-size integer">>, FALSE)

(***************************************************************************)
(* Filter::subst(vs, fv, fa).  The closures fv and fa of the three call    *)
(* sites are described by a record m: k names the call site, vars and args *)
(* are what the closure captures.                                          *)
(***************************************************************************)
CousinSite(vars, args) == [k |-> "cousin", vars |-> vars, args |-> args]
LiftSite(vs) == [k |-> "lift", vars |-> vs, args |-> <<>>]
BuiltinSite(args) == [k |-> "builtin", vars |-> 0, args |-> args]

RECURSIVE Subst(_, _, _)
RECURSIVE SubstFa(_, _, _)
RECURSIVE CousinFa(_, _, _)

\* let fv = |vs, v| if v < vs { v } else { v + vars };
CousinFv(vars, vs, v) == IF v < vs THEN v ELSE v + vars

\* |_, v| v + vs, the variable closure of the substitution inside fa
LiftFv(by, vs, v) == v + by

\* |_, a| Filter::Arg(a), the argument closure of the substitution inside fa
LiftFa(vs, a) == FArg(a)

\* let fa = |vs, a| { args.get(a).unwrap().clone().subst(0, &|_, v| v + vs, ..) };
CousinFa(args, vs, a) ==
    IF a + 1 > Len(args) THEN FPanic
    ELSE Subst(args[a + 1], 0, LiftSite(vs))

\* |_, v| v, the variable closure of the built-in substitution
BuiltinFv(vs, v) == v

\* |_, a| args[a].clone(), the argument closure of the built-in substitution
BuiltinFa(args, vs, a) == IF a + 1 > Len(args) THEN FPanic ELSE args[a + 1]

SubstFv(m, vs, v) ==
    CASE m.k = "cousin" -> CousinFv(m.vars, vs, v)
      [] m.k = "lift" -> LiftFv(m.vars, vs, v)
      [] OTHER -> BuiltinFv(vs, v)

SubstFa(m, vs, a) ==
    CASE m.k = "cousin" -> CousinFa(m.args, vs, a)
      [] m.k = "lift" -> LiftFa(vs, a)
      [] OTHER -> BuiltinFa(m.args, vs, a)

\* Var(v) -> Var(fv(vs, v)); Arg(a) -> fa(vs, a); a binding node (Pipe with
\* binds, Fold) counts one more variable for the sub-filter that sees the
\* binder; every other node is mapped child by child
Subst(f, vs, m) ==
    CASE f.t = "Var" -> FVar(SubstFv(m, vs, f.i))
      [] f.t = "Arg" -> SubstFa(m, vs, f.i)
      [] f.t = "Pipe" /\ f.i = 1 ->
            [f EXCEPT !.fs = <<Subst(f.fs[1], vs, m), Subst(f.fs[2], vs + 1, m)>>]
      [] f.t = "Fold" ->
            [f EXCEPT !.fs = <<Subst(f.fs[1], vs, m), Subst(f.fs[2], vs, m),
                               Subst(f.fs[3], vs + 1, m)>>]
      [] OTHER -> [f EXCEPT !.fs = [k \in DOMAIN f.fs |-> Subst(f.fs[k], vs, m)]]

(***************************************************************************)
(* The arms of the translators that map an expression node to the filter   *)
(* node of the same shape, given the translated sub-expressions fs (in     *)
(* source order).  Both translators share them.                            *)
(***************************************************************************)
RECURSIVE IteFold(_)
\* if_thens.rev().fold(else, |acc, (if_, then_)| Ite(if_, then_, acc))
IteFold(fs) ==
    IF Len(fs) = 1 THEN fs[1]
    ELSE FIte(fs[1], fs[2], IteFold(SubSeq(fs, 3, Len(fs))))

Homo(e, fs) ==
    CASE e.t = "Id" -> FId
      [] e.t = "Str" -> FStr(e.s)
      [] e.t = "Recurse" -> FilterRecurse
      [] e.t = "Pipe" -> FPipe(fs[1], FALSE, fs[2])
      [] e.t = "Or" -> Fl("Logic", 1, 0, "", fs)
      [] e.t = "And" -> Fl("Logic", 0, 0, "", fs)
      [] e.t = "UpdateWith" -> Fl("UpdateMath", 0, 0, e.s, fs)
      [] e.t = "Ite" -> IteFold(fs)
      [] e.t = "KvFilter" -> Fl("Pair", 0, 0, "", fs)
      [] e.t = "KvStr" ->
            Fl("Pair", 0, 0, "", <<FStr(e.s), IF fs = <<>> THEN FPathIndex(FStr(e.s)) ELSE fs[1]>>)
      [] e.t = "Index" -> Fl("Index", IF e.n[1] = "opt" THEN 1 ELSE 0, 0, "", fs)
      [] e.t = "Range" ->
            Fl("Range", IF e.n[1] = "opt" THEN 1 ELSE 0,
               (IF e.n[2] = "l" THEN 1 ELSE 0) + (IF e.n[3] = "u" THEN 2 ELSE 0), "", fs)
      \* Comma, Alt, Math, Ord, Assign, Update, Try, Neg, Array, Object, Path
      [] OTHER -> Fl(e.t, 0, 0, e.s, fs)

\* the order in which the sub-expressions are translated (and so the order of
\* their diagnostics): source order, but for Ite the else branch first and
\* then the (if, then) pairs from the last to the first
RECURSIVE PairsRev(_)
PairsRev(n) == IF n < 2 THEN <<>> ELSE <<n - 1, n>> \o PairsRev(n - 2)

EvalOrder(e) ==
    IF e.t = "Ite" THEN <<Len(e.as)>> \o PairsRev(Len(e.as) - 1)
    ELSE [k \in 1..Len(e.as) |-> k]

RECURSIVE ErrsOf(_, _)
ErrsOf(kids, order) ==
    IF order = <<>> THEN <<>> ELSE kids[order[1]].errs \o ErrsOf(kids, Tail(order))

HomoRes(e, kids) ==
    Res(Homo(e, [k \in DOMAIN kids |-> kids[k].f]),
        ErrsOf(kids, EvalOrder(e)),
        \E k \in DOMAIN kids : kids[k].panic)

\* iter().rev().position(|i| *i == v): -1 stands for None
RevPosition(names, v) ==
    IF \E k \in DOMAIN names : names[k] = v
    THEN Len(names) - (CHOOSE k \in DOMAIN names :
                          names[k] = v /\ \A l \in DOMAIN names : names[l] = v => l <= k)
    ELSE 0 - 1

(***************************************************************************)
(* The definition compiler.  A formal parameter (jaq_parse::Arg) is a      *)
(* record [name, var]; a Parent is a record [name, args, id, children],    *)
(* children a function from <<name, arity>> to the id of a closed          *)
(* definition.  Ids count from 0 as in the source; defs[id + 1] is the     *)
(* slot of id.                                                             *)
(***************************************************************************)
Arg(name, var) == [name |-> name, var |-> var]

NoChildren == [key \in {} |-> 0]

Parent(name, args, id, children) ==
    [name |-> name, args |-> args, id |-> id, children |-> children]

\* the positions (from 1) of the parameters that are variables
VarPositions(args) == {k \in DOMAIN args : args[k].var}

RECURSIVE ArgVars(_)
\* Parent::vars: the names of the variable parameters, in source order
ArgVars(args) ==
    IF args = <<>> THEN <<>>
    ELSE (IF args[1].var THEN <<args[1].name>> ELSE <<>>) \o ArgVars(Tail(args))

ParentVars(t) == ArgVars(t.args)

RECURSIVE CtxVars(_)
\* Ctx::vars: the variable parameters of all frames, outermost first
CtxVars(tree) ==
    IF tree = <<>> THEN <<>> ELSE ParentVars(tree[1]) \o CtxVars(Tail(tree))

RECURSIVE WrapLoop(_, _, _)
\* for idx in (indices of the variable parameters).rev():
\*     f = Pipe(Arg(idx), true, f)
\* k is the position (from 1) the loop is at; it runs from the last to the first
WrapLoop(args, k, f) ==
    IF k = 0 THEN f
    ELSE WrapLoop(args, k - 1, IF args[k].var THEN FPipe(FArg(k - 1), TRUE, f) ELSE f)

RECURSIVE WrapForward(_, _, _)
\* the same loop over the indices in source order, without the reversal
WrapForward(args, k, f) ==
    IF k > Len(args) THEN f
    ELSE WrapForward(args, k + 1, IF args[k].var THEN FPipe(FArg(k - 1), TRUE, f) ELSE f)

\* Ctx::close without the reversal: the leftmost variable parameter innermost
CloseWrapForward(args, filter) == WrapForward(args, 1, filter)

\* the filter Ctx::close stores for a definition with parameters args
CloseWrap(args, filter) == WrapLoop(args, Len(args), filter)

\* a.position(|v| v.get_name() == name): the first parameter of that name
ArgPosition(args, name) ==
    CHOOSE k \in DOMAIN args : args[k].name = name /\ \A l \in DOMAIN args : args[l].name = name => k <= l

RECURSIVE CtxFilter(_, _, _, _)
RECURSIVE CtxCall(_, _, _, _, _, _)

\* the cousin branch emitting a call of the slot in place of its filter
CtxInlineAsCall(tree, defs, id, body, vars, nvars) == Ok(FCall(0, id))

\* the cousin branch of Expr::Call: the actual arguments are translated at the
\* call site and the stored filter of the cousin is substituted
CtxInline(tree, defs, id, body, vars, nvars) ==
    LET kids == [k \in DOMAIN body.as |-> CtxFilter(tree, defs, body.as[k], vars)]
        args == [k \in DOMAIN kids |-> kids[k].f]
        out == Subst(defs[id + 1], nvars, CousinSite(nvars, args))
    IN Res(out, ErrsOf(kids, [k \in 1..Len(kids) |-> k]),
           (\E k \in DOMAIN kids : kids[k].panic) \/ HasTag(out, "Panic"))

\* what a frame that ends the scan of a call with arguments (continue) adds to
\* the variable count: nothing
SkipWithArgs(t) == 0

\* what a frame that matches nothing adds to the variable count of a call
\* without arguments: vars += t.vars().count()
SkipNoArgs(t) == Len(ParentVars(t))

\* Expr::Call: the loop over self.tree.iter().rev(); k is the frame looked at
\* (0 when the loop is over), nvars the variable count so far
CtxCall(tree, defs, body, vars, k, nvars) ==
    IF k = 0 THEN Res(FId, <<"could not find function">>, FALSE)
    ELSE LET t == tree[k]
             key == <<body.s, Len(body.as)>>
         IN IF key \in DOMAIN t.children
            THEN CtxInline(tree, defs, t.children[key], body, vars, nvars)
            ELSE IF body.as # <<>>
            THEN CtxCall(tree, defs, body, vars, k - 1, nvars + SkipWithArgs(t))
            ELSE IF \E p \in DOMAIN t.args : t.args[p].name = body.s
            THEN Ok(FArg(ArgPosition(t.args, body.s) - 1))
            ELSE IF t.name = body.s /\ t.args = <<>>
            THEN Ok(FCall(0, t.id))
            ELSE CtxCall(tree, defs, body, vars, k - 1, nvars + SkipNoArgs(t))

\* Expr::Var of Ctx::filter
CtxVar(tree, v, vars) ==
    LET p == RevPosition(CtxVars(tree) \o vars, v)
    IN IF p < 0 THEN Res(FVar(0), <<"undefined variable">>, FALSE) ELSE Ok(FVar(p))

\* Ctx::filter(body, vars, errs)
CtxFilter(tree, defs, body, vars) ==
    CASE body.t = "Call" -> CtxCall(tree, defs, body, vars, Len(tree), Len(vars))
      [] body.t = "Var" -> CtxVar(tree, body.s, vars)
      [] body.t = "Bind" ->
            LET l == CtxFilter(tree, defs, body.as[1], vars)
                r == CtxFilter(tree, defs, body.as[2], Append(vars, body.s))
            IN Res(FPipe(l.f, TRUE, r.f), l.errs \o r.errs, l.panic \/ r.panic)
      [] body.t = "Fold" ->
            LET xs == CtxFilter(tree, defs, body.as[1], vars)
                init == CtxFilter(tree, defs, body.as[2], vars)
                f == CtxFilter(tree, defs, body.as[3], Append(vars, body.s))
            IN Res(FFold(body.n[1], xs.f, init.f, f.f), xs.errs \o init.errs \o f.errs,
                   xs.panic \/ init.panic \/ f.panic)
      [] body.t = "Num" -> NumFilter(body.n)
      [] OTHER ->
            HomoRes(body, [k \in DOMAIN body.as |-> CtxFilter(tree, defs, body.as[k], vars)])

(***************************************************************************)
(* The expression compiler: the public def and filter.  fns is the         *)
(* registry of built-in filters handed in by the caller; the model uses a  *)
(* fixed one.  A template refers to the call's arguments by Arg.           *)
(***************************************************************************)
Fns ==
    [key \in {<<"a", 0>>, <<"a", 1>>, <<"b", 0>>, <<"b", 1>>, <<"c", 2>>} |->
        CASE key = <<"a", 0>> -> FInt(7)
          [] key = <<"a", 1>> -> FArg(0)
          [] key = <<"b", 0>> -> FStr("b")
          [] key = <<"b", 1>> -> FPipe(FArg(0), FALSE, Fl("Neg", 0, 0, "", <<FArg(0)>>))
          [] OTHER -> FMath(FArg(0), "Add", FArg(1))]

\* args.iter().rposition(|v| *v == name): 0 stands for None, else the position from 1
RPosition(names, name) ==
    IF \E k \in DOMAIN names : names[k] = name
    THEN CHOOSE k \in DOMAIN names :
            names[k] = name /\ \A l \in DOMAIN names : names[l] = name => l <= k
    ELSE 0

\* the argument call wrapped in SkipCtx even when no variable is in scope
PubArgCallAlwaysSkip(pos, vars) == FSkipCtx(Len(vars), FArg(pos))

\* Some(pos) if call_args.is_empty(): the call is one of the supplied arguments
PubArgCall(pos, vars) ==
    IF vars = <<>> THEN FArg(pos) ELSE FSkipCtx(Len(vars), FArg(pos))

RECURSIVE PubFilter(_, _, _)

\* the closure call: look the name up, translate the arguments, substitute them
PubCall(args, body, vars) ==
    LET key == <<body.s, Len(body.as)>>
        found == key \in DOMAIN Fns
        fun == IF found THEN Fns[key] ELSE FId
        kids == [k \in DOMAIN body.as |-> PubFilter(args, body.as[k], vars)]
        out == Subst(fun, 0, BuiltinSite([k \in DOMAIN kids |-> kids[k].f]))
    IN Res(out,
           (IF found THEN <<>> ELSE <<"could not find function">>)
              \o ErrsOf(kids, [k \in 1..Len(kids) |-> k]),
           (\E k \in DOMAIN kids : kids[k].panic) \/ HasTag(out, "Panic"))

\* Expr::Var of filter
PubVar(v, vars) ==
    LET p == RevPosition(vars, v)
    IN IF p < 0 THEN Res(FVar(0), <<"undefined variable">>, FALSE) ELSE Ok(FVar(p))

\* filter(fns, args, vars, body, errs): args are the names of the arguments
PubFilter(args, body, vars) ==
    CASE body.t = "Call" ->
            LET pos == RPosition(args, body.s)
            IN IF pos > 0 /\ body.as = <<>>
               THEN Ok(PubArgCall(pos - 1, vars))
               ELSE PubCall(args, body, vars)
      [] body.t = "Var" -> PubVar(body.s, vars)
      [] body.t = "Bind" ->
            LET l == PubFilter(args, body.as[1], vars)
                r == PubFilter(args, body.as[2], Append(vars, body.s))
            IN Res(FPipe(l.f, TRUE, r.f), l.errs \o r.errs, l.panic \/ r.panic)
      [] body.t = "Fold" ->
            LET xs == PubFilter(args, body.as[1], vars)
                init == PubFilter(args, body.as[2], vars)
                f == PubFilter(args, body.as[3], Append(vars, body.s))
            IN Res(FFold(body.n[1], xs.f, init.f, f.f), xs.errs \o init.errs \o f.errs,
                   xs.panic \/ init.panic \/ f.panic)
      [] body.t = "Num" -> NumFilter(body.n)
      [] OTHER ->
            HomoRes(body, [k \in DOMAIN body.as |-> PubFilter(args, body.as[k], vars)])

\* the wrapping loop of def over vars_idxs.into_iter().rev()
PubWrap(args, f) == WrapLoop(args, Len(args), f)

\* def(fns, args, body, errs)
PubDef(args, body) ==
    LET r == PubFilter([k \in DOMAIN args |-> args[k].name], body, ArgVars(args))
    IN Res(PubWrap(args, r.f), r.errs, r.panic)

(***************************************************************************)
(* The inputs the model draws from.                                        *)
(***************************************************************************)
One == ENum(<<"1">>)
PlusOne == EMath(EId, "Add", One)
TooLong == ENum([k \in 1..20 |-> "9"])

\* name and parameters of the definitions of a module
Heads ==
    { <<"f", <<>> >>,
      <<"g", <<>> >>,
      <<"f", <<Arg("a", FALSE)>> >>,
      <<"g", <<Arg("x", TRUE), Arg("a", FALSE), Arg("y", TRUE)>> >> }

\* bodies of the definitions of a module
DefBodies ==
    { PlusOne, EVar("x"), EVar("y"), ECall("f", <<>>), ECall("g", <<>>), ECall("a", <<>>),
      EBind(One, "z", ECall("a", <<>>)) }

\* bodies of a module
MainBodies ==
    { ECall("f", <<>>), ECall("g", <<>>),
      ECall("f", <<EVar("y")>>),
      EBind(One, "y", ECall("f", <<EVar("y")>>)),
      EBind(One, "y", ECall("f", <<>>)),
      ECall("f", <<EBind(One, "y", EVar("y"))>>),
      ECall("g", <<One, PlusOne, ENum(<<"1", "e">>)>>),
      EFold("reduce", EId, "y", TooLong, ECall("h", <<EVar("y"), EVar("x")>>)) }

\* the formal parameters of a definition given to the public def
Params == {Arg("a", FALSE), Arg("x", TRUE), Arg("y", TRUE)}

RECURSIVE SeqsUpTo(_, _)
\* the sequences over S of length at most n
SeqsUpTo(S, n) ==
    IF n = 0 THEN {<<>>}
    ELSE LET shorter == SeqsUpTo(S, n - 1)
         IN shorter \cup {Append(q, e) : q \in shorter, e \in S}

ArgLists == SeqsUpTo(Params, MaxArgs)

\* argument names and pre-bound variables given to the public filter
NameLists == {<<>>, <<Arg("a", FALSE)>>, <<Arg("b", FALSE), Arg("a", FALSE)>>,
              <<Arg("a", FALSE), Arg("a", FALSE)>>}
VarLists == {<<>>, <<"x">>, <<"x", "y">>}

PubAtoms ==
    { EId, One, ENum(<<"2", ".", "5">>), ENum(<<"1", "e">>), EVar("x"), EVar("y"),
      ECall("a", <<>>), ECall("b", <<>>), ECall("h", <<>>) }

PubLevel1 ==
    PubAtoms
    \cup {EBind(l, "y", r) : l \in {One, ECall("a", <<>>)}, r \in PubAtoms}
    \cup {EFold("reduce", l, "z", EId, r) : l \in {EId, ECall("a", <<>>)}, r \in PubAtoms}
    \cup {ECall(nm, <<l>>) : nm \in {"a", "b", "h"}, l \in PubAtoms}
    \cup {EComma(ECall("a", <<>>), r) : r \in PubAtoms}

\* bodies given to the public def and filter
PubBodies ==
    PubLevel1
    \cup {EBind(One, "x", r) : r \in PubLevel1}
    \cup { EIte(<<ECall("a", <<>>), EVar("x"), EVar("q"), One>>, ECall("h", <<>>)),
           EObject(<<KvStr("k", <<>>), KvStr("l", <<ECall("a", <<>>)>>), KvFilter(EVar("x"), One)>>),
           EPath(ECall("a", <<>>), <<PIndex(EStr("k"), "opt"), PRange(<<One>>, <<>>, "req")>>),
           EArray(<<EUn("Try", EUn("Neg", ERecurse))>>),
           ECall("c", <<ECall("a", <<>>), EBind(One, "y", ECall("a", <<>>))>>),
           EBin("UpdateWith", "Add", EBin("Or", "", EId, EPipe(EId, EId)), EBin("And", "", EId, EId)) }

(***************************************************************************)
(* State.  entry is the entry point the caller uses: "module" (the         *)
(* definition compiler over a module), "def" or "filter" (the public       *)
(* functions).  tree and defs are the fields of Ctx, errs the diagnostics, *)
(* top the filter returned for the body.  src holds, for each slot of      *)
(* defs, the definition that reserved it (name, parameters, body once it   *)
(* is translated, nesting depth) and how often Ctx::close wrote the slot.  *)
(* main, inArgs, inVars are the body, the parameters and the pre-bound     *)
(* variables the caller passes.                                            *)
(***************************************************************************)
VARIABLES entry, pc, tree, defs, errs, top, src, main, inArgs, inVars

vars == <<entry, pc, tree, defs, errs, top, src, main, inArgs, inVars>>

\* the frame under which top-level definitions are registered; nothing calls it
Root == Parent("", <<>>, 0, NoChildren)

Init ==
    /\ pc = "run"
    /\ errs = <<>>
    /\ top = FilterDefault
    /\ defs = <<>>
    /\ src = <<>>
    /\ \/ /\ entry = "module"
          /\ tree = <<Root>>
          /\ main = EId
          /\ inArgs = <<>>
          /\ inVars = <<>>
       \/ /\ entry = "def"
          /\ tree = <<>>
          /\ main \in PubBodies
          /\ inArgs \in ArgLists
          /\ inVars = <<>>
       \/ /\ entry = "filter"
          /\ tree = <<>>
          /\ main \in PubBodies
          /\ inArgs \in NameLists
          /\ inVars \in VarLists

\* Ctx::def up to the translation of the nested definitions: a frame is pushed
\* and a slot is reserved
DefOpen ==
    /\ entry = "module" /\ pc = "run"
    /\ Len(defs) < MaxDefs
    /\ \E h \in Heads :
          /\ tree' = Append(tree, Parent(h[1], h[2], Len(defs), NoChildren))
          /\ defs' = Append(defs, FilterDefault)
          /\ src' = Append(src, [name |-> h[1], args |-> h[2], body |-> EId,
                                 depth |-> Len(tree), writes |-> 0])
    /\ UNCHANGED <<entry, pc, errs, top, main, inArgs, inVars>>

\* the store going to the first slot whatever the id of the node
StoreDefFirst(ds, id, filter) == [ds EXCEPT ![1] = filter]

\* self.defs[node.id] = filter
StoreDef(ds, id, filter) == [ds EXCEPT ![id + 1] = filter]

\* parent.children.entry(node.name).or_default().insert(node.args.len(), node.id)
Register(parent, node) ==
    LET key == <<node.name, Len(node.args)>>
    IN [parent EXCEPT !.children =
           [k \in DOMAIN parent.children \cup {key} |->
               IF k = key THEN node.id ELSE parent.children[k]]]

\* Ctx::close on the tree: the innermost frame is popped and registered in the
\* frame below it
CloseTree(tr) ==
    LET node == tr[Len(tr)]
        rest == SubSeq(tr, 1, Len(tr) - 1)
    IN [rest EXCEPT ![Len(rest)] = Register(rest[Len(rest)], node)]

\* the end of Ctx::def: the body of the innermost open definition is translated
\* and the definition is closed; a panic ends the compilation
DefClose ==
    /\ entry = "module" /\ pc = "run"
    /\ Len(tree) > 1
    /\ \E body \in DefBodies :
          LET r == CtxFilter(tree, defs, body, <<>>)
              node == tree[Len(tree)]
          IN IF r.panic
             THEN /\ pc' = "panicked"
                  /\ UNCHANGED <<tree, defs, errs, src>>
             ELSE /\ pc' = pc
                  /\ errs' = errs \o r.errs
                  /\ defs' = StoreDef(defs, node.id, CloseWrap(node.args, r.f))
                  /\ tree' = CloseTree(tree)
                  /\ src' = [src EXCEPT ![node.id + 1].body = body,
                                        ![node.id + 1].writes = @ + 1]
    /\ UNCHANGED <<entry, top, main, inArgs, inVars>>

\* the body of the module is translated once every definition is closed
Main ==
    /\ entry = "module" /\ pc = "run"
    /\ Len(tree) = 1
    /\ \E body \in MainBodies :
          LET r == CtxFilter(tree, defs, body, <<>>)
          IN /\ main' = body
             /\ IF r.panic
                THEN /\ pc' = "panicked"
                     /\ UNCHANGED <<errs, top>>
                ELSE /\ pc' = "done"
                     /\ errs' = errs \o r.errs
                     /\ top' = r.f
    /\ UNCHANGED <<entry, tree, defs, src, inArgs, inVars>>

\* a call of the public def
RunDef ==
    /\ entry = "def" /\ pc = "run"
    /\ LET r == PubDef(inArgs, main)
       IN IF r.panic
          THEN /\ pc' = "panicked"
               /\ UNCHANGED <<errs, top>>
          ELSE /\ pc' = "done"
               /\ errs' = errs \o r.errs
               /\ top' = r.f
    /\ UNCHANGED <<entry, tree, defs, src, main, inArgs, inVars>>

\* a call of the public filter
RunFilter ==
    /\ entry = "filter" /\ pc = "run"
    /\ LET r == PubFilter([k \in DOMAIN inArgs |-> inArgs[k].name], main, inVars)
       IN IF r.panic
          THEN /\ pc' = "panicked"
               /\ UNCHANGED <<errs, top>>
          ELSE /\ pc' = "done"
               /\ errs' = errs \o r.errs
               /\ top' = r.f
    /\ UNCHANGED <<entry, tree, defs, src, main, inArgs, inVars>>

Next == DefOpen \/ DefClose \/ Main \/ RunDef \/ RunFilter

Spec == Init /\ [][Next]_vars

(***************************************************************************)
(* Helpers of the properties.                                              *)
(***************************************************************************)
InModule == entry = "module"

RECURSIVE VarsBelow(_, _)
\* every Var(k) of f that sits under b binders of f satisfies k < d + b
VarsBelow(f, d) ==
    CASE f.t = "Var" -> f.i < d
      [] f.t = "Pipe" /\ f.i = 1 -> VarsBelow(f.fs[1], d) /\ VarsBelow(f.fs[2], d + 1)
      [] f.t = "Fold" ->
            VarsBelow(f.fs[1], d) /\ VarsBelow(f.fs[2], d) /\ VarsBelow(f.fs[3], d + 1)
      [] OTHER -> \A k \in DOMAIN f.fs : VarsBelow(f.fs[k], d)

RECURSIVE ArgsBelow(_, _)
\* every Arg(k) of f satisfies k < n
ArgsBelow(f, n) ==
    IF f.t = "Arg" THEN f.i < n ELSE \A k \in DOMAIN f.fs : ArgsBelow(f.fs[k], n)

RECURSIVE CallIds(_)
\* the ids of the Call nodes of f
CallIds(f) ==
    (IF f.t = "Call" THEN {f.j} ELSE {})
        \cup UNION {CallIds(f.fs[k]) : k \in DOMAIN f.fs}

\* local variables a translation may start with
LocalLists == {<<>>, <<"y">>, <<"z", "y">>}

\* the frame (from 1, 0 for none) in which the scan of a call ends, and how
\* it ends there, read off the resolution order: innermost frame first; in a
\* frame a closed child of that name and arity, else (without arguments) a
\* parameter of that name, else the frame itself when it has that name and no
\* parameters
FrameEnds(t, call) ==
    \/ <<call.s, Len(call.as)>> \in DOMAIN t.children
    \/ /\ call.as = <<>>
       /\ \/ \E p \in DOMAIN t.args : t.args[p].name = call.s
          \/ t.name = call.s /\ t.args = <<>>

EndFrame(tr, call) ==
    IF \E k \in DOMAIN tr : FrameEnds(tr[k], call)
    THEN CHOOSE k \in DOMAIN tr :
            FrameEnds(tr[k], call) /\ \A l \in DOMAIN tr : FrameEnds(tr[l], call) => l <= k
    ELSE 0

IsCousinCall(tr, call) ==
    /\ EndFrame(tr, call) > 0
    /\ <<call.s, Len(call.as)>> \in DOMAIN tr[EndFrame(tr, call)].children

RECURSIVE Shift(_, _, _)
\* g moved under by more binders: the variables free in g (index >= e under e
\* binders of g) are raised, the ones bound in g are kept
Shift(g, by, e) ==
    CASE g.t = "Var" -> IF g.i < e THEN g ELSE FVar(g.i + by)
      [] g.t = "Pipe" /\ g.i = 1 ->
            [g EXCEPT !.fs = <<Shift(g.fs[1], by, e), Shift(g.fs[2], by, e + 1)>>]
      [] g.t = "Fold" ->
            [g EXCEPT !.fs = <<Shift(g.fs[1], by, e), Shift(g.fs[2], by, e),
                               Shift(g.fs[3], by, e + 1)>>]
      [] OTHER -> [g EXCEPT !.fs = [k \in DOMAIN g.fs |-> Shift(g.fs[k], by, e)]]

RECURSIVE CaptureAvoiding(_, _, _, _)
\* b with its arguments replaced by the actual arguments as and placed under n
\* more variables, every Var denoting the binder it denoted: under d binders of
\* b a Var below d is bound in b and kept, any other Var is free in b and
\* raised by n; an actual argument put under d binders of b is shifted by d
CaptureAvoiding(b, d, n, as) ==
    CASE b.t = "Var" -> IF b.i < d THEN b ELSE FVar(b.i + n)
      [] b.t = "Arg" -> Shift(as[b.i + 1], d, 0)
      [] b.t = "Pipe" /\ b.i = 1 ->
            [b EXCEPT !.fs = <<CaptureAvoiding(b.fs[1], d, n, as),
                               CaptureAvoiding(b.fs[2], d + 1, n, as)>>]
      [] b.t = "Fold" ->
            [b EXCEPT !.fs = <<CaptureAvoiding(b.fs[1], d, n, as),
                               CaptureAvoiding(b.fs[2], d, n, as),
                               CaptureAvoiding(b.fs[3], d + 1, n, as)>>]
      [] OTHER -> [b EXCEPT !.fs = [k \in DOMAIN b.fs |-> CaptureAvoiding(b.fs[k], d, n, as)]]

\* the calls the properties about calls range over
CallExprs ==
    { ECall(nm, <<>>) : nm \in {"f", "g"} }
    \cup { ECall("f", <<a>>) : a \in {EVar("y"), EVar("x"), EBind(One, "y", EVar("y")), PlusOne} }

\* the variable parameters of the frames of tr above frame k
VarsAbove(tr, k) == Len(CtxVars(SubSeq(tr, k + 1, Len(tr))))

(***************************************************************************)
(* C1.  Cousin inlining is capture-avoiding: at every point the definition *)
(* compiler reaches, a call (of any arity, under any local binders) that   *)
(* resolves to a closed definition among the children of a frame is        *)
(* translated (the module being free of diagnostics so far) to that        *)
(* definition's stored filter with (a) its bound Vars                      *)
(* kept, (b) its free Vars raised by the local binders and the variable    *)
(* parameters of the frames between the call and that frame, and (c) the   *)
(* translated actual arguments in place of its Args, each Var of an        *)
(* argument still denoting the binder it denoted at the call site.         *)
(***************************************************************************)
C1_CaptureAvoidingInlining ==
    (InModule /\ pc = "run" /\ errs = <<>>) =>
        \A call \in CallExprs, L \in LocalLists :
            LET k == EndFrame(tree, call)
                r == CtxFilter(tree, defs, call, L)
                stored == defs[tree[k].children[<<call.s, Len(call.as)>>] + 1]
                actual == [i \in DOMAIN call.as |-> CtxFilter(tree, defs, call.as[i], L).f]
            IN (IsCousinCall(tree, call) /\ ~r.panic) =>
                  r.f = CaptureAvoiding(stored, 0, Len(L) + VarsAbove(tree, k), actual)

(***************************************************************************)
(* C2.  Whenever Ctx::filter translates an expression without recording a  *)
(* diagnostic (and none was recorded before), every Var(k) of the result that sits under d binders of the *)
(* result satisfies k < (variable parameters of all frames) + |local_vars| *)
(* + d.                                                                    *)
(***************************************************************************)
C2_VarsInScope ==
    (InModule /\ pc = "run" /\ errs = <<>>) =>
        \A e \in DefBodies \cup MainBodies, L \in LocalLists :
            LET r == CtxFilter(tree, defs, e, L)
            IN (r.errs = <<>> /\ ~r.panic) => VarsBelow(r.f, Len(CtxVars(tree)) + Len(L))

(***************************************************************************)
(* C3.  When a module compiles without diagnostics, no slot of the filter  *)
(* table and not the top-level filter contains a free variable: every      *)
(* Var(k) is below the number of binders that dominate it.                 *)
(***************************************************************************)
C3_NoFreeVars ==
    (InModule /\ pc = "done" /\ errs = <<>>) =>
        /\ \A p \in DOMAIN defs : VarsBelow(defs[p], 0)
        /\ VarsBelow(top, 0)

(***************************************************************************)
(* C4.  Once a definition is closed, every Arg(k) of its slot satisfies    *)
(* k < the number of its formal parameters.                                *)
(***************************************************************************)
C4_ArgsWithinArity ==
    InModule =>
        \A p \in DOMAIN defs :
            src[p].writes > 0 => ArgsBelow(defs[p], Len(src[p].args))

(***************************************************************************)
(* C10.  The definition compiler never aborts: no inlining looks up an     *)
(* actual argument the call does not have.                                 *)
(***************************************************************************)
C10_NeverAborts == InModule => pc # "panicked"

RECURSIVE SumOver(_, _)
\* the sum of a sequence of numbers
SumOver(q, k) == IF k = 0 THEN 0 ELSE q[k] + SumOver(q, k - 1)

\* a numeric literal that cannot be interpreted
BadNum(n) ==
    IF ContainsFloatChar(n) THEN ~ParseF64(n).ok ELSE ~ParseIsize(n).ok

RECURSIVE ErrSites(_, _, _, _)
\* the places of a source expression that are in error: a reference to a
\* variable that is not in scope, a call that resolves to nothing, a numeric
\* literal that cannot be interpreted.  inScope are the names of the variables
\* in scope, Resolves(call) says whether a call resolves
ErrSites(e, inScope, tr, names) ==
    LET kid(k, sc) == ErrSites(e.as[k], sc, tr, names)
        kids == SumOver([k \in DOMAIN e.as |-> kid(k, inScope)], Len(e.as))
    IN CASE e.t = "Var" -> IF e.s \in inScope THEN 0 ELSE 1
         [] e.t = "Num" -> IF BadNum(e.n) THEN 1 ELSE 0
         [] e.t = "Call" ->
               kids + (IF tr # <<>>
                       THEN (IF EndFrame(tr, e) = 0 THEN 1 ELSE 0)
                       ELSE (IF \/ e.as = <<>> /\ e.s \in names
                                \/ <<e.s, Len(e.as)>> \in DOMAIN Fns
                             THEN 0 ELSE 1))
         [] e.t = "Bind" -> kid(1, inScope) + kid(2, inScope \cup {e.s})
         [] e.t = "Fold" -> kid(1, inScope) + kid(2, inScope) + kid(3, inScope \cup {e.s})
         [] OTHER -> kids

Range(q) == {q[k] : k \in DOMAIN q}

\* q is a prefix of r
IsPrefix(q, r) == Len(q) <= Len(r) /\ SubSeq(r, 1, Len(q)) = q

\* the definition the step closes, when the step is a close
Closing == src'[tree[Len(tree)].id + 1]

C7_Step ==
    /\ IsPrefix(errs, errs')
    /\ (InModule /\ Len(tree') < Len(tree)) =>
          Len(errs') = Len(errs) + ErrSites(Closing.body, Range(CtxVars(tree)), tree, {})
    /\ (InModule /\ pc' = "done") =>
          Len(errs') = Len(errs) + ErrSites(main', {}, tree, {})
    /\ (~InModule /\ pc' = "done") =>
          Len(errs') = Len(errs) + ErrSites(main, Range(ArgVars(inArgs)) \cup Range(inVars),
                                            <<>>, {inArgs[k].name : k \in DOMAIN inArgs})

(***************************************************************************)
(* C7.  Translation reports every error: the diagnostics only grow, and    *)
(* every translation that completes (the body of a definition being        *)
(* closed, the body of a module, a call of the public def or filter) adds  *)
(* one diagnostic for each undefined variable reference, each call that    *)
(* resolves to nothing and each numeric literal that cannot be interpreted *)
(* anywhere in the expression, the arguments of a call that does not       *)
(* resolve included.                                                       *)
(***************************************************************************)
C7_EveryErrorReported == [][C7_Step]_vars

(***************************************************************************)
(* C5.  The filter table under Ctx::def and Ctx::close.                    *)
(***************************************************************************)
\* the slots count from 1 in defs and src; Slot(id) is the place of id
Slot(id) == id + 1

C5_Inv ==
    InModule =>
        /\ Len(src) = Len(defs)
        /\ \A p \in DOMAIN src : src[p].writes <= 1
        \* an open definition has its slot, reserved and not yet written, and
        \* a nested definition has a later slot than the one around it
        /\ \A k \in 2..Len(tree) :
              /\ tree[k].id < Len(defs)
              /\ src[Slot(tree[k].id)].writes = 0
              /\ k > 2 => tree[k - 1].id < tree[k].id
        \* only written slots can be found for inlining
        /\ \A k \in DOMAIN tree : \A key \in DOMAIN tree[k].children :
              /\ tree[k].children[key] < Len(defs)
              /\ src[Slot(tree[k].children[key])].writes = 1
        \* on termination every slot is written and every Call refers to one
        /\ pc = "done" =>
              /\ \A p \in DOMAIN src : src[p].writes = 1
              /\ \A id \in CallIds(top) \cup UNION {CallIds(defs[p]) : p \in DOMAIN defs} :
                    id < Len(defs) /\ src[Slot(id)].writes = 1

C5_Step ==
    InModule =>
        /\ Len(defs') >= Len(defs)
        /\ \A p \in DOMAIN defs :
              \* a written slot stays as it is
              /\ src[p].writes = 1 => (defs'[p] = defs[p] /\ src'[p].writes = 1)
              \* a slot is written by the close of its own definition, with
              \* the translated body under the binders of its parameters
              /\ src'[p].writes # src[p].writes =>
                    /\ Len(tree) > 1 /\ p = Slot(tree[Len(tree)].id)
                    /\ src'[p].writes = 1
                    /\ defs'[p] = CloseWrap(src[p].args,
                                            CtxFilter(tree, defs, src'[p].body, <<>>).f)
              /\ src'[p].writes = src[p].writes => defs'[p] = defs[p]

(***************************************************************************)
(* C5.  The filter table never shrinks; a definition's slot is reserved    *)
(* before its nested definitions and its body are translated; a slot is    *)
(* written once, by the close of its definition, and never changes         *)
(* afterwards; only written slots can be found for inlining; and on        *)
(* termination every Call{id} of the table and of the top-level filter has *)
(* id < table length and refers to a written slot.                         *)
(***************************************************************************)
C5_TableDiscipline == [](C5_Inv) /\ [][C5_Step]_vars

\* a module with a nested definition compiled to the end, with a Call in the
\* table and in the top-level filter
C5_Witness ==
    /\ InModule /\ pc = "done"
    /\ Len(defs) >= 2 /\ src[2].depth = 2
    /\ CallIds(top) # {}
    /\ \E p \in DOMAIN defs : CallIds(defs[p]) # {}

(***************************************************************************)
(* C6.  The binders of the variable parameters.                            *)
(***************************************************************************)
RECURSIVE ChainOk(_, _, _)
\* f is Pipe(Arg(i_1), true, Pipe(Arg(i_2), true, ...)) for the variable
\* parameters at the positions k.. of args, the leftmost outermost
ChainOk(f, args, k) ==
    IF k > Len(args) THEN TRUE
    ELSE IF args[k].var
         THEN /\ f.t = "Pipe" /\ f.i = 1
              /\ f.fs[1] = FArg(k - 1)
              /\ ChainOk(f.fs[2], args, k + 1)
         ELSE ChainOk(f, args, k + 1)

RECURSIVE Inner(_, _)
\* what is under the m outermost binders of f
Inner(f, m) == IF m = 0 THEN f ELSE Inner(f.fs[2], m - 1)

\* the j-th binder of f, counted from the outermost
NthPipe(f, j) == Inner(f, j - 1)

\* a body that is a reference to the j-th variable parameter (no later
\* parameter has its name) is stored as Var(m - j), which denotes the j-th
\* binder, whose left side is the Arg of that parameter
BodyRefOk(stored, args, body) ==
    LET vs == ArgVars(args)
        m == Len(vs)
    IN \A j \in 1..m :
          (body = EVar(vs[j]) /\ \A l \in (j + 1)..m : vs[l] # vs[j]) =>
              /\ Inner(stored, m) = FVar(m - j)
              /\ LET left == NthPipe(stored, m - Inner(stored, m).i).fs[1]
                 IN /\ left.t = "Arg"
                    /\ args[left.i + 1] = Arg(vs[j], TRUE)
                    /\ Cardinality({k \in VarPositions(args) : k <= left.i + 1}) = j

(***************************************************************************)
(* C6.  In both compilers the filter stored for a definition is            *)
(* Pipe(Arg(i_1), true, Pipe(Arg(i_2), true, ... body)) over the positions *)
(* i_1 < ... < i_m of its variable parameters, the leftmost outermost, and *)
(* a body that refers to the j-th variable parameter is Var(m - j), which  *)
(* denotes the binder whose left side is that parameter's Arg.             *)
(***************************************************************************)
C6_ParameterBinders ==
    /\ InModule =>
          \A p \in DOMAIN defs :
              src[p].writes = 1 =>
                  /\ ChainOk(defs[p], src[p].args, 1)
                  /\ BodyRefOk(defs[p], src[p].args, src[p].body)
    /\ (entry = "def" /\ pc = "done") =>
          /\ ChainOk(top, inArgs, 1)
          /\ BodyRefOk(top, inArgs, main)

\* def g($x; a; $y): $x; is closed: Pipe(Arg(0), true, Pipe(Arg(2), true, Var(1)))
C6_Witness ==
    /\ InModule
    /\ \E p \in DOMAIN defs :
          /\ src[p].writes = 1
          /\ src[p].args = <<Arg("x", TRUE), Arg("a", FALSE), Arg("y", TRUE)>>
          /\ src[p].body = EVar("x")
          /\ defs[p] = FPipe(FArg(0), TRUE, FPipe(FArg(2), TRUE, FVar(1)))

(***************************************************************************)
(* C8.  A call without arguments to a top-level definition without         *)
(* parameters.                                                             *)
(***************************************************************************)
\* the slots of the top-level definitions named nm that take no parameters
TopLevelNullary(nm) ==
    {p \in DOMAIN src : src[p].depth = 1 /\ src[p].name = nm /\ src[p].args = <<>>}

\* the latest of them
LatestSlot(nm) ==
    CHOOSE p \in TopLevelNullary(nm) : \A q \in TopLevelNullary(nm) : q <= p

\* the module is compiled and its body is a call without arguments to a
\* top-level definition without parameters
NullaryCallDone ==
    /\ InModule /\ pc = "done"
    /\ main.t = "Call" /\ main.as = <<>>
    /\ TopLevelNullary(main.s) # {}

\* the slot holds the translated body: for the body .+1, Math(Id, Add, Int(1))
SlotHoldsBody(p) ==
    src[p].body = PlusOne => defs[p] = FMath(FId, "Add", FInt(1))

(***************************************************************************)
(* C8 as stated.  A call without arguments, in the module body, to a       *)
(* previously defined top-level definition of arity 0 compiles to          *)
(* Call{skip: 0, id} with id that definition's slot, and the slot holds    *)
(* the definition's translated body.                                       *)
(***************************************************************************)
C8_CompilesToCall ==
    NullaryCallDone =>
        /\ top = FCall(0, LatestSlot(main.s) - 1)
        /\ SlotHoldsBody(LatestSlot(main.s))

(***************************************************************************)
(* C8 as amended.  A call without arguments that is the module body, to a  *)
(* previously defined top-level definition of arity 0, compiles to a copy  *)
(* of the filter stored in that definition's slot (the definition is       *)
(* inlined), and the slot holds the definition's translated body.          *)
(***************************************************************************)
C8_CompilesToStoredBody ==
    NullaryCallDone =>
        /\ top = defs[LatestSlot(main.s)]
        /\ SlotHoldsBody(LatestSlot(main.s))

\* def f: .+1; f
C8_Witness ==
    /\ NullaryCallDone
    /\ main = ECall("f", <<>>)
    /\ Len(src) = 1 /\ src[1].body = PlusOne
    /\ defs = <<FMath(FId, "Add", FInt(1))>>
    /\ top = FMath(FId, "Add", FInt(1))

(***************************************************************************)
(* C9.  Calls in the expression compiler.                                  *)
(***************************************************************************)
RECURSIVE C9Walk(_, _, _, _)
RECURSIVE C9Template(_, _, _, _, _)

\* f is the template t of a built-in filter with the translations of the
\* actual arguments as in place of its Args
C9Template(t, f, as, n, names) ==
    IF t.t = "Arg" THEN C9Walk(as[t.i + 1], f, n, names)
    ELSE /\ f.t = t.t
         /\ Len(f.fs) = Len(t.fs)
         /\ \A k \in DOMAIN t.fs : C9Template(t.fs[k], f.fs[k], as, n, names)

\* f translates e, where n variables are in scope at e: every call of e
\* without arguments to one of names is Arg(pos), alone when n = 0 and in
\* SkipCtx(n, .) otherwise; every other call is resolved by the registry
C9Walk(e, f, n, names) ==
    CASE e.t = "Call" /\ e.as = <<>> /\ e.s \in Range(names) ->
            \E pos \in 0..(Len(names) - 1) :
                /\ names[pos + 1] = e.s
                /\ f = IF n = 0 THEN FArg(pos) ELSE FSkipCtx(n, FArg(pos))
      [] e.t = "Call" /\ ~(e.as = <<>> /\ e.s \in Range(names)) ->
            IF <<e.s, Len(e.as)>> \in DOMAIN Fns
            THEN C9Template(Fns[<<e.s, Len(e.as)>>], f, e.as, n, names)
            ELSE f = FId
      [] e.t = "Bind" ->
            /\ f.t = "Pipe" /\ f.i = 1
            /\ C9Walk(e.as[1], f.fs[1], n, names)
            /\ C9Walk(e.as[2], f.fs[2], n + 1, names)
      [] e.t = "Fold" ->
            /\ f.t = "Fold"
            /\ C9Walk(e.as[1], f.fs[1], n, names)
            /\ C9Walk(e.as[2], f.fs[2], n, names)
            /\ C9Walk(e.as[3], f.fs[3], n + 1, names)
      [] e.t = "Ite" ->
            /\ f.t = "Ite"
            /\ C9Walk(e.as[1], f.fs[1], n, names)
            /\ C9Walk(e.as[2], f.fs[2], n, names)
            /\ C9Walk(IF Len(e.as) = 3 THEN e.as[3]
                      ELSE [e EXCEPT !.as = SubSeq(e.as, 3, Len(e.as))], f.fs[3], n, names)
      [] e.t = "KvStr" -> e.as # <<>> => C9Walk(e.as[1], f.fs[2], n, names)
      [] OTHER ->
            /\ Len(f.fs) = Len(e.as)
            /\ \A k \in DOMAIN e.as : C9Walk(e.as[k], f.fs[k], n, names)

ArgNames == [k \in DOMAIN inArgs |-> inArgs[k].name]

(***************************************************************************)
(* C9.  In the expression compiler a call without arguments whose name is  *)
(* one of the supplied argument names is not looked up in the registry: it *)
(* compiles to Arg(pos) when no variable is in scope at the call and to    *)
(* SkipCtx(n, Arg(pos)) when n > 0 variables (pre-bound names plus the     *)
(* pipe and fold binders around the call) are; a call with arguments is    *)
(* resolved by the registry with its arity.                                *)
(***************************************************************************)
C9_ArgumentCalls ==
    /\ (entry = "filter" /\ pc = "done") => C9Walk(main, top, Len(inVars), ArgNames)
    /\ (entry = "def" /\ pc = "done") =>
          C9Walk(main, Inner(top, Len(ArgVars(inArgs))), Len(ArgVars(inArgs)), ArgNames)

\* filter with arguments b, a and the pre-bound variable x, on `1 as $y | a`
C9_Witness ==
    /\ entry = "filter" /\ pc = "done"
    /\ ArgNames = <<"b", "a">> /\ inVars = <<"x">>
    /\ main = EBind(One, "y", ECall("a", <<>>))
    /\ top = FPipe(FInt(1), TRUE, FSkipCtx(2, FArg(1)))

====
